---- MODULE Spec2Model ----
(***************************************************************************)
(* Model of src/app.py: a Streamlit script that shows a folium map,        *)
(* reverse-geocodes the clicked point with Nominatim and lists the public  *)
(* holidays of the resolved country with Calendarific.                     *)
(*                                                                         *)
(* One run of the script ("render pass") is modelled by three steps, cut   *)
(* where the script reads from the outside world:                          *)
(*   Startup         lines 11-61   key load, session defaults, map widget  *)
(*   HandleClick     lines 64-113  click handler with the geocode reply    *)
(*   HolidaySection  lines 117-174 results area with the holiday reply     *)
(* Between passes the session waits (pc = "idle") for the user.            *)
(*                                                                         *)
(* Python values are tagged tuples so that values of different Python      *)
(* types can be compared: None, a missing session key, str, int, and the   *)
(* [lat, lon] list.  A str is a sequence of one-character strings.         *)
(***************************************************************************)
EXTENDS Integers, Sequences, FiniteSets, TLC

VARIABLES
    has_key,           \* "CALENDARIFIC_API_KEY" is in st.secrets
    center,            \* st.session_state.center
    zoom,              \* st.session_state.zoom
    clicked_location,  \* st.session_state.clicked_location
    country_code,      \* st.session_state.country_code
    country_name,      \* st.session_state.country_name
    pc,                \* position of the script: "start", "handle", "holiday", "idle"
    trigger,           \* what started the current pass: "load", "click", "rerun", "moved"
    ended,             \* "running", or how the last pass ended: "stopped", "rerun", "completed", "crashed"
    widget,            \* last_clicked value held by the map component
    map_data,          \* last_clicked value st_folium returned in this pass
    view,              \* elements rendered in this pass, in order
    geo_req,           \* geocoding request issued in this pass, or NoRequest
    geo_resp,          \* reply to the most recent geocoding request, or NoResponse
    geo_count,         \* geocoding requests issued since the last user click
    holiday_req,       \* holiday request issued in this pass, or NoRequest
    hol_resp,          \* reply to the holiday request of this pass, or NoResponse
    entry,             \* session state at the start of the current pass
    clicks,            \* TRUE once the click handler has processed a click
    last_click,        \* point of the user's most recent click in this session, or None
    year               \* datetime.now().year

session == <<center, zoom, clicked_location, country_code, country_name>>

vars == <<has_key, center, zoom, clicked_location, country_code, country_name,
          pc, trigger, ended, widget, map_data, view, geo_req, geo_resp,
          geo_count, holiday_req, hol_resp, entry, clicks, last_click, year>>

(***************************************************************************)
(* Bounds of the model.                                                    *)
(***************************************************************************)
MaxHolidays == 2      \* longest holiday list in a reply
GeoCountCap == 3      \* geo_count stops counting here
YearSpan == 1         \* how many times the calendar year may advance

(***************************************************************************)
(* Python values.                                                          *)
(***************************************************************************)
None == <<"None">>
Absent == <<"absent">>
Str(s) == <<"str", s>>
Num(n) == <<"num", n>>
Loc(lat, lon) == <<"loc", lat, lon>>

NaN == <<"nan">>

\* No request issued, no reply received.
NoRequest == [url |-> "none"]
NoResponse == [kind |-> "none"]

IsStr(v) == v[1] = "str"

\* Python truth value of the values the script tests with `if`.
Truthy(v) ==
    /\ v # None
    /\ v # Absent
    /\ ~(IsStr(v) /\ v[2] = <<>>)

\* st.session_state.get(key): None when the key is missing.
Get(v) == IF v = Absent THEN None ELSE v

LowerLetters == <<"a","b","c","d","e","f","g","h","i","j","k","l","m",
                  "n","o","p","q","r","s","t","u","v","w","x","y","z">>
UpperLetters == <<"A","B","C","D","E","F","G","H","I","J","K","L","M",
                  "N","O","P","Q","R","S","T","U","V","W","X","Y","Z">>

UpperChar(c) ==
    IF \E i \in 1..Len(LowerLetters) : LowerLetters[i] = c
    THEN UpperLetters[CHOOSE i \in 1..Len(LowerLetters) : LowerLetters[i] = c]
    ELSE c

\* str.upper()
Upper(s) == [i \in 1..Len(s) |-> UpperChar(s[i])]

(***************************************************************************)
(* Program constants.  Coordinates are in units of 1/10000 degree.         *)
(***************************************************************************)
DefaultCenter == Loc(375665, 1269780)
DefaultZoom == 4
ClickZoom == 6

\* Points the user may click: Seoul, a mid-ocean point, a point in the US.
ClickPoints == {Loc(375665, 1269780), Loc(0, -300000), Loc(400000, -1000000)}

Years == 2026..(2026 + YearSpan)

(***************************************************************************)
(* Exceptions.  `except requests.exceptions.RequestException` catches the  *)
(* first set, `except Exception` every class of the second; the exception  *)
(* st.rerun() raises derives from BaseException and is caught by neither.  *)
(***************************************************************************)
RequestExceptions == {"ConnectionError", "HTTPError", "JSONDecodeError"}
Exceptions == RequestExceptions \cup
              {"ValueError", "AttributeError", "TypeError", "KeyError", "NameError"}
RerunException == "RerunException"

(***************************************************************************)
(* Rendered elements.                                                      *)
(***************************************************************************)
ErrorMsg(what) == <<"error", what>>
WarningMsg(what) == <<"warning", what>>
InfoMsg(what) == <<"info", what>>
MapElem(c, z, marker) == <<"map", c, z, marker>>
Subheader(name, code, y) == <<"subheader", name, code, y>>
Dataframe(rows) == <<"dataframe", rows>>
InfoNoHolidays(name) == <<"info", "no_holidays", name>>
JsonDump == <<"json">>

Shown(tag) == \E i \in 1..Len(view) : view[i][1] = tag
ShownMsg(tag, what) == \E i \in 1..Len(view) : view[i][1] = tag /\ view[i][2] = what

(***************************************************************************)
(* Initial state: a new session, before its first pass.  No key of         *)
(* st.session_state exists yet and the map component holds no click.       *)
(***************************************************************************)
Init ==
    /\ has_key \in BOOLEAN
    /\ center = Absent
    /\ zoom = Absent
    /\ clicked_location = Absent
    /\ country_code = Absent
    /\ country_name = Absent
    /\ pc = "start"
    /\ trigger = "load"
    /\ ended = "running"
    /\ widget = None
    /\ map_data = None
    /\ view = <<>>
    /\ geo_req = NoRequest
    /\ geo_resp = NoResponse
    /\ geo_count = 0
    /\ holiday_req = NoRequest
    /\ hol_resp = NoResponse
    /\ entry = session
    /\ clicks = FALSE
    /\ last_click = None
    /\ year = 2026

(***************************************************************************)
(* Lines 11-61: load the API key (st.stop() without it), create the        *)
(* missing session keys, draw the map from the session state and read the  *)
(* map component.  After a click the component returns that click.  In a   *)
(* pass that no click started it returns the click it still holds, or      *)
(* None when the front end has mounted the component anew.                 *)
(***************************************************************************)
\* As Default, but assigning the default in every run.
DefaultAlways(v, d) == d

\* Lines 28-33: `if key not in st.session_state`, then the default.
Default(v, d) == IF v = Absent THEN d ELSE v

\* As KeyLoaded, but a run without the key goes on.
KeyLoadedAlways == TRUE

\* Lines 11-15: the lookup of the key in st.secrets succeeds.
KeyLoaded == has_key

Startup ==
    /\ pc = "start"
    /\ entry' = session
    /\ geo_req' = NoRequest
    /\ holiday_req' = NoRequest
    /\ hol_resp' = NoResponse
    /\ UNCHANGED <<has_key, last_click, country_code, country_name, trigger,
                   geo_resp,
                   geo_count, clicks, year>>
    /\ IF ~KeyLoaded
       THEN /\ view' = <<ErrorMsg("secret_missing"), ErrorMsg("secret_howto")>>
            /\ pc' = "idle"
            /\ ended' = "stopped"
            /\ UNCHANGED <<center, zoom, clicked_location, widget, map_data>>
       ELSE /\ center' = Default(center, DefaultCenter)
            /\ zoom' = Default(zoom, Num(DefaultZoom))
            /\ clicked_location' = Default(clicked_location, None)
            /\ view' = <<MapElem(center', zoom',
                                 IF Truthy(clicked_location')
                                 THEN clicked_location' ELSE None)>>
            /\ \E kept \in BOOLEAN :
                   /\ (trigger = "click" => kept)
                   /\ widget' = IF kept THEN widget ELSE None
            /\ map_data' = widget'
            /\ pc' = "handle"
            /\ ended' = "running"

(***************************************************************************)
(* Replies of the reverse-geocoding service to requests.get (line 86).     *)
(* A JSON object is a record; a key the object lacks is a field the record *)
(* lacks.  country_code is a lower-case code, or a value that is not a     *)
(* string.                                                                 *)
(***************************************************************************)
CountryCodes == {Str(<<"k", "r">>), Str(<<"u", "s">>)}
CountryNames == {Str(<<"L", "a", "n", "d">>)}

GeoAddresses ==
    {[state |-> Str(<<"x">>)]}
    \cup {[country_code |-> c] : c \in CountryCodes \cup {Num(82)}}
    \cup {[country_code |-> c, country |-> n] :
              c \in CountryCodes \cup {Num(82)}, n \in CountryNames}

GeoBodies ==
    {[error |-> Str(<<"x">>)]} \cup {[address |-> a] : a \in GeoAddresses}

GeoResponses ==
    {[kind |-> "transport_error"], [kind |-> "http_error"]}
    \cup {[kind |-> "bad_json", exc |-> e] : e \in {"JSONDecodeError", "ValueError"}}
    \cup {[kind |-> "json", body |-> b] : b \in GeoBodies}

GeoRequest(lat, lon) ==
    [url |-> "https://nominatim.openstreetmap.org/reverse",
     lat |-> lat, lon |-> lon, format |-> "json", accept_language |-> "en",
     user_agent |-> "Streamlit Holiday App (user@example.com)"]

(***************************************************************************)
(* Lines 86-104, the body of the geocoding try block, as a function of the *)
(* reply: the exception that leaves the block ("none" when the block ends  *)
(* normally), the element it rendered and whether and what it stored in    *)
(* country_code and country_name before that.                              *)
(***************************************************************************)
GeoRaise(e) ==
    [exc |-> e, stored |-> FALSE, code |-> None, name |-> None, shown |-> <<>>]

\* As GeocodeTry, but storing the country code as the service sent it.
GeocodeTryNoUpper(resp) ==
    IF resp.kind = "transport_error" THEN GeoRaise("ConnectionError")
    ELSE IF resp.kind = "http_error" THEN GeoRaise("HTTPError")
    ELSE IF resp.kind = "bad_json" THEN GeoRaise(resp.exc)
    ELSE LET geo_data == resp.body IN
         IF /\ "address" \in DOMAIN geo_data
            /\ "country_code" \in DOMAIN geo_data.address
         THEN IF ~IsStr(geo_data.address.country_code)
              THEN GeoRaise("AttributeError")
              ELSE LET code == geo_data.address.country_code
                       name == IF "country" \in DOMAIN geo_data.address
                               THEN geo_data.address.country
                               ELSE code
                   IN  [exc |-> RerunException, stored |-> TRUE,
                        code |-> code, name |-> name, shown |-> <<>>]
         ELSE [exc |-> "none", stored |-> TRUE, code |-> None, name |-> None,
               shown |-> <<WarningMsg("country_not_found")>>]

\* As GeocodeTry, but the no-match branch only warns and keeps the stored country.
GeocodeTryKeepsCountry(resp) ==
    IF resp.kind = "transport_error" THEN GeoRaise("ConnectionError")
    ELSE IF resp.kind = "http_error" THEN GeoRaise("HTTPError")
    ELSE IF resp.kind = "bad_json" THEN GeoRaise(resp.exc)
    ELSE LET geo_data == resp.body IN
         IF /\ "address" \in DOMAIN geo_data
            /\ "country_code" \in DOMAIN geo_data.address
         THEN IF ~IsStr(geo_data.address.country_code)
              THEN GeoRaise("AttributeError")
              ELSE LET code == Str(Upper(geo_data.address.country_code[2]))
                       name == IF "country" \in DOMAIN geo_data.address
                               THEN geo_data.address.country
                               ELSE code
                   IN  [exc |-> RerunException, stored |-> TRUE,
                        code |-> code, name |-> name, shown |-> <<>>]
         ELSE [exc |-> "none", stored |-> FALSE, code |-> None, name |-> None,
               shown |-> <<WarningMsg("country_not_found")>>]

GeocodeTry(resp) ==
    IF resp.kind = "transport_error" THEN GeoRaise("ConnectionError")
    ELSE IF resp.kind = "http_error" THEN GeoRaise("HTTPError")
    ELSE IF resp.kind = "bad_json" THEN GeoRaise(resp.exc)
    ELSE LET geo_data == resp.body IN
         IF /\ "address" \in DOMAIN geo_data
            /\ "country_code" \in DOMAIN geo_data.address
         THEN IF ~IsStr(geo_data.address.country_code)
              THEN GeoRaise("AttributeError")
              ELSE LET code == Str(Upper(geo_data.address.country_code[2]))
                       name == IF "country" \in DOMAIN geo_data.address
                               THEN geo_data.address.country
                               ELSE code
                   IN  [exc |-> RerunException, stored |-> TRUE,
                        code |-> code, name |-> name, shown |-> <<>>]
         ELSE [exc |-> "none", stored |-> TRUE, code |-> None, name |-> None,
               shown |-> <<WarningMsg("country_not_found")>>]

(***************************************************************************)
(* Lines 75-113: the try block with its two except clauses.  Each clause   *)
(* renders an error and clears the country; an exception neither clause    *)
(* catches leaves the block.                                               *)
(***************************************************************************)
\* As GeocodeBlock, but the `except Exception` clause forgets to clear the country.
GeocodeBlockStale(resp) ==
    LET r == GeocodeTry(resp) IN
    IF r.exc = "none" THEN r
    ELSE IF r.exc \in RequestExceptions
    THEN [exc |-> "none", stored |-> TRUE, code |-> None, name |-> None,
          shown |-> r.shown \o <<ErrorMsg("geocode_request")>>]
    ELSE IF r.exc \in Exceptions
    THEN [exc |-> "none", stored |-> FALSE, code |-> None, name |-> None,
          shown |-> r.shown \o <<ErrorMsg("geocode_unknown")>>]
    ELSE r

\* As GeocodeBlock, but the RequestException clause forgets to clear the country.
GeocodeBlockKeepsOnRequestError(resp) ==
    LET r == GeocodeTry(resp) IN
    IF r.exc = "none" THEN r
    ELSE IF r.exc \in RequestExceptions
    THEN [exc |-> "none", stored |-> FALSE, code |-> None, name |-> None,
          shown |-> r.shown \o <<ErrorMsg("geocode_request")>>]
    ELSE IF r.exc \in Exceptions
    THEN [exc |-> "none", stored |-> TRUE, code |-> None, name |-> None,
          shown |-> r.shown \o <<ErrorMsg("geocode_unknown")>>]
    ELSE r

\* As GeocodeBlock, without the `except Exception` clause.
GeocodeBlockNoCatchAll(resp) ==
    LET r == GeocodeTry(resp) IN
    IF r.exc = "none" THEN r
    ELSE IF r.exc \in RequestExceptions
    THEN [exc |-> "none", stored |-> TRUE, code |-> None, name |-> None,
          shown |-> r.shown \o <<ErrorMsg("geocode_request")>>]
    ELSE r

GeocodeBlock(resp) ==
    LET r == GeocodeTry(resp) IN
    IF r.exc = "none" THEN r
    ELSE IF r.exc \in RequestExceptions
    THEN [exc |-> "none", stored |-> TRUE, code |-> None, name |-> None,
          shown |-> r.shown \o <<ErrorMsg("geocode_request")>>]
    ELSE IF r.exc \in Exceptions
    THEN [exc |-> "none", stored |-> TRUE, code |-> None, name |-> None,
          shown |-> r.shown \o <<ErrorMsg("geocode_unknown")>>]
    ELSE r

\* As ClickUpdate, but the zoom level is left as it is.
ClickUpdateKeepsZoom(lat, lon) ==
    [clicked_location |-> Loc(lat, lon), center |-> Loc(lat, lon),
     zoom |-> zoom]

\* As ClickUpdate, but the map centre is not moved.
ClickUpdateKeepsCenter(lat, lon) ==
    [clicked_location |-> Loc(lat, lon), center |-> center,
     zoom |-> Num(ClickZoom)]

\* Lines 70-72: what a click stores in the session state.
ClickUpdate(lat, lon) ==
    [clicked_location |-> Loc(lat, lon), center |-> Loc(lat, lon),
     zoom |-> Num(ClickZoom)]

(***************************************************************************)
(* Lines 64-113: the click handler.  Without a click it does nothing.      *)
(* With one it stores the click, issues the geocoding request and runs the *)
(* try block.  An exception that leaves the block leaves the script: the   *)
(* rerun request restarts it, anything else is a crash.                    *)
(***************************************************************************)
HandleClick ==
    /\ pc = "handle"
    /\ UNCHANGED <<has_key, last_click, widget, map_data, holiday_req, hol_resp,
                   entry, year>>
    /\ IF ~Truthy(map_data)
       THEN /\ pc' = "holiday"
            /\ UNCHANGED <<center, zoom, clicked_location, country_code,
                           country_name, trigger, ended, view, geo_req,
                           geo_resp, geo_count, clicks>>
       ELSE \E resp \in GeoResponses :
            LET lat == map_data[2]
                lon == map_data[3]
                u == ClickUpdate(lat, lon)
                r == GeocodeBlock(resp)
            IN  /\ clicked_location' = u.clicked_location
                /\ center' = u.center
                /\ zoom' = u.zoom
                /\ clicks' = TRUE
                /\ geo_req' = GeoRequest(lat, lon)
                /\ geo_resp' = resp
                /\ geo_count' = IF geo_count < GeoCountCap
                                THEN geo_count + 1 ELSE geo_count
                /\ country_code' = IF r.stored THEN r.code ELSE country_code
                /\ country_name' = IF r.stored THEN r.name ELSE country_name
                /\ view' = view \o r.shown
                /\ IF r.exc = "none"
                   THEN pc' = "holiday" /\ UNCHANGED <<trigger, ended>>
                   ELSE IF r.exc = RerunException
                   THEN pc' = "start" /\ trigger' = "rerun" /\ ended' = "rerun"
                   ELSE pc' = "idle" /\ ended' = "crashed" /\ UNCHANGED trigger

(***************************************************************************)
(* Replies of the holiday service to requests.get (line 132).  A holiday   *)
(* record may lack the keys the script reads.  The body of an HTTP error   *)
(* reply may be unparsable, or JSON with or without response.error.        *)
(***************************************************************************)
HolidayRecords ==
    {[date |-> [iso |-> Str(<<"1">>)], name |-> Str(<<"a">>), description |-> Str(<<"p">>)],
     [date |-> [iso |-> Str(<<"2">>)], name |-> Str(<<"b">>), description |-> Str(<<"q">>)],
     [date |-> [iso |-> Str(<<"3">>)], name |-> Str(<<"c">>)],
     [name |-> Str(<<"d">>), description |-> Str(<<"s">>)]}

HolidayLists == UNION {[1..n -> HolidayRecords] : n \in 0..MaxHolidays}

HolidayBodies ==
    {[meta |-> Num(200)], [meta |-> Num(200), response |-> [error |-> Str(<<"e">>)]]}
    \cup {[meta |-> Num(200), response |-> [holidays |-> hs]] : hs \in HolidayLists}

HolidayErrorBodies ==
    {[meta |-> Num(401)], [meta |-> Num(401), response |-> [error |-> Str(<<"e">>)]]}

HolidayResponses ==
    {[kind |-> "transport_error"], [kind |-> "http_error", parses |-> FALSE]}
    \cup {[kind |-> "http_error", parses |-> TRUE, body |-> b] : b \in HolidayErrorBodies}
    \cup {[kind |-> "bad_json", exc |-> e] : e \in {"JSONDecodeError", "ValueError"}}
    \cup {[kind |-> "json", body |-> b] : b \in HolidayBodies}

\* As HolidayRequest, but with the year fixed when the script was written.
HolidayRequestFixedYear(code, y) ==
    [url |-> "https://calendarific.com/api/v2/holidays",
     api_key |-> "API_KEY", country |-> code, year |-> 2026]

HolidayRequest(code, y) ==
    [url |-> "https://calendarific.com/api/v2/holidays",
     api_key |-> "API_KEY", country |-> code, year |-> y]

(***************************************************************************)
(* Lines 142-151: the holiday list as a table.  pandas makes one column    *)
(* per key that occurs in some record and fills NaN where a record lacks   *)
(* the key, so a record without "date" fails in the lambda and a missing   *)
(* column fails in the column selection.  Rows keep the order of the list. *)
(***************************************************************************)
\* As TableTry, but with the rows in reverse order (a descending sort by date).
TableTryReversed(holidays) ==
    LET columns == UNION {DOMAIN holidays[i] : i \in 1..Len(holidays)}
        Cell(h, k) == IF k \in DOMAIN h THEN h[k] ELSE NaN
        n == Len(holidays)
    IN  IF "date" \notin columns THEN [exc |-> "KeyError", shown |-> <<>>]
        ELSE IF \E i \in 1..n : "date" \notin DOMAIN holidays[i]
        THEN [exc |-> "TypeError", shown |-> <<>>]
        ELSE IF \E i \in 1..n : "iso" \notin DOMAIN holidays[i].date
        THEN [exc |-> "KeyError", shown |-> <<>>]
        ELSE IF "name" \notin columns \/ "description" \notin columns
        THEN [exc |-> "KeyError", shown |-> <<>>]
        ELSE [exc |-> "none",
              shown |-> <<Dataframe([i \in 1..n |->
                              <<holidays[n + 1 - i].date.iso,
                                Cell(holidays[n + 1 - i], "name"),
                                Cell(holidays[n + 1 - i], "description")>>])>>]

TableTry(holidays) ==
    LET columns == UNION {DOMAIN holidays[i] : i \in 1..Len(holidays)}
        Cell(h, k) == IF k \in DOMAIN h THEN h[k] ELSE NaN
    IN  IF "date" \notin columns THEN [exc |-> "KeyError", shown |-> <<>>]
        ELSE IF \E i \in 1..Len(holidays) : "date" \notin DOMAIN holidays[i]
        THEN [exc |-> "TypeError", shown |-> <<>>]
        ELSE IF \E i \in 1..Len(holidays) : "iso" \notin DOMAIN holidays[i].date
        THEN [exc |-> "KeyError", shown |-> <<>>]
        ELSE IF "name" \notin columns \/ "description" \notin columns
        THEN [exc |-> "KeyError", shown |-> <<>>]
        ELSE [exc |-> "none",
              shown |-> <<Dataframe([i \in 1..Len(holidays) |->
                              <<holidays[i].date.iso,
                                Cell(holidays[i], "name"),
                                Cell(holidays[i], "description")>>])>>]

(***************************************************************************)
(* Lines 132-158, the body of the holiday try block, as a function of the  *)
(* reply: the exception that leaves the block and what it rendered.        *)
(***************************************************************************)
\* As HolidayTry, without the `if holidays:` test: an empty list goes to the
\* table conversion, which fails on the missing date column.
HolidayTryNoEmptyTest(resp, name) ==
    IF resp.kind = "transport_error" THEN [exc |-> "ConnectionError", shown |-> <<>>]
    ELSE IF resp.kind = "http_error" THEN [exc |-> "HTTPError", shown |-> <<>>]
    ELSE IF resp.kind = "bad_json" THEN [exc |-> resp.exc, shown |-> <<>>]
    ELSE LET holiday_data == resp.body IN
         IF /\ "response" \in DOMAIN holiday_data
            /\ "holidays" \in DOMAIN holiday_data.response
         THEN TableTry(holiday_data.response.holidays)
         ELSE [exc |-> "none", shown |-> <<ErrorMsg("bad_format"), JsonDump>>]

HolidayTry(resp, name) ==
    IF resp.kind = "transport_error" THEN [exc |-> "ConnectionError", shown |-> <<>>]
    ELSE IF resp.kind = "http_error" THEN [exc |-> "HTTPError", shown |-> <<>>]
    ELSE IF resp.kind = "bad_json" THEN [exc |-> resp.exc, shown |-> <<>>]
    ELSE LET holiday_data == resp.body IN
         IF /\ "response" \in DOMAIN holiday_data
            /\ "holidays" \in DOMAIN holiday_data.response
         THEN LET holidays == holiday_data.response.holidays IN
              IF holidays # <<>>
              THEN TableTry(holidays)
              ELSE [exc |-> "none", shown |-> <<InfoNoHolidays(name)>>]
         ELSE [exc |-> "none", shown |-> <<ErrorMsg("bad_format"), JsonDump>>]

(***************************************************************************)
(* Lines 163-168: the server message of a failed request.  response.json() *)
(* fails when no reply arrived (the name response is unbound) or the body  *)
(* is not JSON; that failure is swallowed.                                 *)
(***************************************************************************)
ServerMessage(resp) ==
    IF /\ resp.kind = "http_error"
       /\ resp.parses
       /\ "response" \in DOMAIN resp.body
       /\ "error" \in DOMAIN resp.body.response
    THEN <<ErrorMsg("server_message")>>
    ELSE <<>>

(***************************************************************************)
(* Lines 124-171: the try block with its two except clauses, each of which *)
(* renders an error.                                                       *)
(***************************************************************************)
\* As HolidayBlock, without the except clauses.
HolidayBlockUncaught(resp, name) == HolidayTry(resp, name)

HolidayBlock(resp, name) ==
    LET r == HolidayTry(resp, name) IN
    IF r.exc = "none" THEN r
    ELSE IF r.exc \in RequestExceptions
    THEN [exc |-> "none",
          shown |-> r.shown \o <<ErrorMsg("holiday_request")>> \o ServerMessage(resp)]
    ELSE IF r.exc \in Exceptions
    THEN [exc |-> "none", shown |-> r.shown \o <<ErrorMsg("holiday_unknown")>>]
    ELSE r

\* As HasCountry, but testing only that the key exists.
HasCountryKeyOnly == country_code # Absent

\* Line 117: the guard of the results area.
HasCountry == Truthy(Get(country_code))

(***************************************************************************)
(* Lines 117-174: the results area.  With a country code in the session    *)
(* state: the header, the holiday request and its outcome.  Without: the   *)
(* prompt.  The script ends here.                                          *)
(***************************************************************************)
HolidaySection ==
    /\ pc = "holiday"
    /\ UNCHANGED <<has_key, last_click, center, zoom, clicked_location,
                   country_code,
                   country_name, trigger, widget, map_data, geo_req, geo_resp,
                   geo_count, entry, clicks, year>>
    /\ pc' = "idle"
    /\ IF HasCountry
       THEN \E resp \in HolidayResponses :
            LET current_year == year
                r == HolidayBlock(resp, country_name)
            IN  /\ holiday_req' = HolidayRequest(country_code, current_year)
                /\ hol_resp' = resp
                /\ view' = view \o <<Subheader(country_name, country_code, current_year)>>
                                \o r.shown
                /\ ended' = IF r.exc = "none" THEN "completed" ELSE "crashed"
       ELSE /\ view' = view \o <<InfoMsg("prompt")>>
            /\ ended' = "completed"
            /\ UNCHANGED <<holiday_req, hol_resp>>

(***************************************************************************)
(* The user and the clock.  A click on the rendered map makes the map      *)
(* component hold the clicked point and starts a pass.  Any other change   *)
(* of the map (pan, zoom) starts a pass too.  Reloading the page starts a  *)
(* new session with an empty session state.                                *)
(***************************************************************************)
Click ==
    /\ pc = "idle"
    /\ ended = "completed"
    /\ \E p \in ClickPoints : widget' = p /\ last_click' = p
    /\ pc' = "start"
    /\ trigger' = "click"
    /\ geo_count' = 0
    /\ UNCHANGED <<has_key, center, zoom, clicked_location, country_code,
                   country_name, ended, map_data, view, geo_req, geo_resp,
                   holiday_req, hol_resp, entry, clicks, year>>

MapMoved ==
    /\ pc = "idle"
    /\ ended = "completed"
    /\ pc' = "start"
    /\ trigger' = "moved"
    /\ UNCHANGED <<has_key, last_click, center, zoom, clicked_location,
                   country_code,
                   country_name, ended, widget, map_data, view, geo_req,
                   geo_resp, geo_count, holiday_req, hol_resp, entry, clicks, year>>

NewSession ==
    /\ pc = "idle"
    /\ center' = Absent
    /\ zoom' = Absent
    /\ clicked_location' = Absent
    /\ country_code' = Absent
    /\ country_name' = Absent
    /\ pc' = "start"
    /\ trigger' = "load"
    /\ ended' = "running"
    /\ widget' = None
    /\ map_data' = None
    /\ view' = <<>>
    /\ geo_req' = NoRequest
    /\ geo_resp' = NoResponse
    /\ geo_count' = 0
    /\ holiday_req' = NoRequest
    /\ hol_resp' = NoResponse
    /\ entry' = <<Absent, Absent, Absent, Absent, Absent>>
    /\ clicks' = FALSE
    /\ last_click' = None
    /\ UNCHANGED <<has_key, year>>

Tick ==
    /\ year + 1 \in Years
    /\ year' = year + 1
    /\ UNCHANGED <<has_key, last_click, center, zoom, clicked_location,
                   country_code,
                   country_name, pc, trigger, ended, widget, map_data, view,
                   geo_req, geo_resp, geo_count, holiday_req, hol_resp, entry,
                   clicks>>

Next ==
    \/ Startup
    \/ HandleClick
    \/ HolidaySection
    \/ Click
    \/ MapMoved
    \/ NewSession
    \/ Tick

Spec == Init /\ [][Next]_vars

\* The script runs to its end once started; the user is under no obligation.
FairSpec ==
    /\ Spec
    /\ WF_vars(Startup)
    /\ WF_vars(HandleClick)
    /\ WF_vars(HolidaySection)

TypeOK ==
    /\ has_key \in BOOLEAN
    /\ pc \in {"start", "handle", "holiday", "idle"}
    /\ trigger \in {"load", "click", "rerun", "moved"}
    /\ ended \in {"running", "stopped", "rerun", "completed", "crashed"}
    /\ widget \in ClickPoints \cup {None}
    /\ map_data \in ClickPoints \cup {None}
    /\ geo_count \in 0..GeoCountCap
    /\ clicks \in BOOLEAN
    /\ last_click \in ClickPoints \cup {None}
    /\ year \in Years

(***************************************************************************)
(* Vocabulary of the properties.                                           *)
(***************************************************************************)
PassCompleted == pc = "idle" /\ ended = "completed"

\* The pass being run, or the last one run, issued a geocoding request.
Geocoded == geo_req.url # "none"

\* The geocoding reply arrived, parsed, and carries a usable country_code.
GeoSucceeded(resp) ==
    /\ resp.kind = "json"
    /\ "address" \in DOMAIN resp.body
    /\ "country_code" \in DOMAIN resp.body.address
    /\ IsStr(resp.body.address.country_code)

\* The geocoding reply arrived and parsed, without address or country_code.
GeoNoMatch(resp) ==
    /\ resp.kind = "json"
    /\ ~("address" \in DOMAIN resp.body /\ "country_code" \in DOMAIN resp.body.address)

CountrySet == Truthy(Get(country_code))

(***************************************************************************)
(* C1: after every completed render pass the session's country code is set *)
(* (non-empty) exactly when the most recent geocoding attempt succeeded     *)
(* with a country_code in the reply; every failed attempt (transport or     *)
(* HTTP error, no address or country_code, any other exception) leaves it   *)
(* unset.                                                                  *)
(***************************************************************************)
C1_CountrySetIffLastGeocodeSucceeded ==
    PassCompleted => (CountrySet <=> GeoSucceeded(geo_resp))

\* A completed pass whose geocoding failed after an earlier click had resolved a country.
C1_Witness ==
    /\ PassCompleted
    /\ Geocoded
    /\ ~GeoSucceeded(geo_resp)
    /\ Truthy(Get(entry[4]))
    /\ ~CountrySet

(***************************************************************************)
(* C2: a holiday request is issued only while the session state holds a    *)
(* country code, and its country parameter is that stored code.            *)
(***************************************************************************)
C2_HolidayRequestOnlyWithCountry ==
    holiday_req.url # "none" =>
        /\ CountrySet
        /\ holiday_req.country = country_code

\* A pass that issued a holiday request.
C2_Witness ==
    /\ PassCompleted
    /\ holiday_req.url # "none"
    /\ holiday_req.country = Str(<<"K", "R">>)

ResolvedCodes == {Str(Upper(c[2])) : c \in CountryCodes}

(***************************************************************************)
(* C3: after a click whose geocoding succeeds, with no further user input  *)
(* a render pass eventually completes in which the holiday request for the *)
(* resolved country was issued and its outcome rendered under the header;  *)
(* the sequence does not restart forever.  Stated for the pass that        *)
(* st.rerun() starts, under the assumption that a started script runs on.  *)
(***************************************************************************)
C3_GeocodeSuccessLeadsToHolidayRender ==
    \A c \in ResolvedCodes :
        (pc = "start" /\ ended = "rerun" /\ country_code = c)
            ~> (/\ PassCompleted
                /\ holiday_req.url # "none"
                /\ holiday_req.country = c
                /\ Shown("subheader"))

(***************************************************************************)
(* C4: when the geocoding reply has no address or country_code, that pass  *)
(* shows the warning, ends with country_code and country_name None (an     *)
(* earlier country is cleared), issues no holiday request and does not     *)
(* force a rerun.                                                          *)
(***************************************************************************)
C4_NoMatchClearsCountry ==
    /\ (ended = "rerun" => ~GeoNoMatch(geo_resp))
    /\ (pc \in {"holiday", "idle"} /\ Geocoded /\ GeoNoMatch(geo_resp)) =>
           /\ ShownMsg("warning", "country_not_found")
           /\ country_code = None
           /\ country_name = None
           /\ holiday_req = NoRequest
           /\ ended \in {"running", "completed"}

\* A completed no-match pass that began with a resolved country.
C4_Witness ==
    /\ PassCompleted
    /\ Geocoded
    /\ GeoNoMatch(geo_resp)
    /\ Truthy(Get(entry[4]))
    /\ ShownMsg("info", "prompt")

(***************************************************************************)
(* C5: nothing is retried automatically: a click causes one geocoding      *)
(* request, and a pass that no new click started issues none.              *)
(***************************************************************************)
C5_NoAutomaticRetry ==
    /\ geo_count <= 1
    /\ (pc \in {"holiday", "idle"} /\ Geocoded) => trigger = "click"

\* The holiday request got no reply or a non-success status.
HolidayFailed(resp) == resp.kind \in {"transport_error", "http_error"}

\* The reply parsed and has response.holidays.
HasHolidayList(resp) ==
    /\ resp.kind = "json"
    /\ "response" \in DOMAIN resp.body
    /\ "holidays" \in DOMAIN resp.body.response

\* Every record has date.iso, and the name and description columns exist.
Readable(hs) ==
    /\ \A i \in 1..Len(hs) : "date" \in DOMAIN hs[i] /\ "iso" \in DOMAIN hs[i].date
    /\ \E i \in 1..Len(hs) : "name" \in DOMAIN hs[i]
    /\ \E i \in 1..Len(hs) : "description" \in DOMAIN hs[i]

\* A holiday reply the script cannot turn into a table or an empty result.
HolidayUnusable(resp) ==
    \/ resp.kind \in {"transport_error", "http_error", "bad_json"}
    \/ resp.kind = "json" /\ ~HasHolidayList(resp)
    \/ /\ HasHolidayList(resp)
       /\ resp.body.response.holidays # <<>>
       /\ ~Readable(resp.body.response.holidays)

(***************************************************************************)
(* C6: when the holiday request fails (no reply, or a status such as 401)  *)
(* the pass completes with an inline error and no table, the holiday       *)
(* section leaves the session state unchanged, and the map accepts the     *)
(* next click.                                                             *)
(***************************************************************************)
C6_HolidayFailureIsInline ==
    /\ []((pc = "idle" /\ HolidayFailed(hol_resp)) =>
              /\ ended = "completed"
              /\ Shown("error")
              /\ ~Shown("dataframe")
              /\ ENABLED Click)
    /\ [][pc = "holiday" => session' = session]_vars

\* A completed pass whose holiday request was answered with an error status and a server message.
C6_Witness ==
    /\ PassCompleted
    /\ hol_resp.kind = "http_error"
    /\ ShownMsg("error", "holiday_request")
    /\ ShownMsg("error", "server_message")
    /\ CountrySet

(***************************************************************************)
(* C7: without the API key every run halts before the session state is     *)
(* initialised and before the map is rendered: the configuration error is  *)
(* shown and no geocoding or holiday request is ever issued.               *)
(***************************************************************************)
C7_MissingKeyHalts ==
    ~has_key =>
        /\ session = <<Absent, Absent, Absent, Absent, Absent>>
        /\ ~Shown("map")
        /\ geo_req = NoRequest
        /\ geo_resp = NoResponse
        /\ holiday_req = NoRequest
        /\ pc \in {"start", "idle"}
        /\ pc = "idle" => ended = "stopped" /\ ShownMsg("error", "secret_missing")

\* A run halted for lack of the key.
C7_Witness ==
    /\ ~has_key
    /\ pc = "idle"
    /\ ended = "stopped"
    /\ ShownMsg("error", "secret_missing")

(***************************************************************************)
(* C8: every failure of an external call is caught where the call is made  *)
(* and shown as a message; none leaves the render pass, so a pass that got *)
(* past the key check ends by completing the results area or by the rerun  *)
(* after a geocoding success.                                              *)
(***************************************************************************)
C8_FailuresAreCaught ==
    /\ ended # "crashed"
    /\ (ended = "stopped" => ~has_key)
    /\ (pc = "idle" /\ has_key) => ended = "completed"
    /\ (ended = "rerun" => GeoSucceeded(geo_resp))
    /\ (pc \in {"holiday", "idle"} /\ Geocoded /\ ~GeoSucceeded(geo_resp)) =>
           Shown("warning") \/ Shown("error")
    /\ (pc = "idle" /\ HolidayUnusable(hol_resp)) => Shown("error")

\* A completed pass whose geocoding reply had an ill-typed country_code.
C8_Witness ==
    /\ PassCompleted
    /\ Geocoded
    /\ geo_resp.kind = "json"
    /\ "address" \in DOMAIN geo_resp.body
    /\ "country_code" \in DOMAIN geo_resp.body.address
    /\ ~IsStr(geo_resp.body.address.country_code)
    /\ ShownMsg("error", "geocode_unknown")

(***************************************************************************)
(* C9: processing a click, from any state and whatever the geocoding       *)
(* outcome, leaves clicked_location and center equal to the clicked point  *)
(* and zoom equal to 6; so clicked_location is always unset or equal to    *)
(* center.                                                                 *)
(***************************************************************************)
C9_ClickMovesMap ==
    /\ Truthy(Get(clicked_location)) => clicked_location = center
    /\ clicks => zoom = Num(6)
    /\ Geocoded =>
           /\ clicked_location = map_data
           /\ center = map_data
           /\ zoom = Num(6)
           /\ geo_req.lat = map_data[2]
           /\ geo_req.lon = map_data[3]

\* A failed click processed in a session whose marker stood elsewhere.
C9_Witness ==
    /\ PassCompleted
    /\ Geocoded
    /\ ~GeoSucceeded(geo_resp)
    /\ Truthy(Get(entry[3]))
    /\ entry[3] # clicked_location
    /\ clicked_location = Loc(0, -300000)

(***************************************************************************)
(* C10: in every completed pass the results area follows from the state    *)
(* and the holiday reply.  Without a country code: the prompt and no       *)
(* header.  With one: the header naming country and year, followed by      *)
(* exactly one of the table (non-empty list, readable), the no-holidays    *)
(* information (empty list, not an error), or an error (no                 *)
(* response.holidays, a failed request, or a list that cannot be read).    *)
(***************************************************************************)
C10_ResultsArea ==
    PassCompleted =>
        IF ~CountrySet
        THEN /\ ShownMsg("info", "prompt")
             /\ ~Shown("subheader")
             /\ ~Shown("dataframe")
             /\ holiday_req = NoRequest
        ELSE LET table == Shown("dataframe")
                 empty == ShownMsg("info", "no_holidays")
                 error == Shown("error")
             IN  /\ ~ShownMsg("info", "prompt")
                 /\ \E i \in 1..Len(view) :
                        /\ view[i][1] = "subheader"
                        /\ view[i] = Subheader(country_name, country_code, holiday_req.year)
                        /\ \A j \in 1..Len(view) :
                               view[j][1] \in {"dataframe", "info", "error", "json"} => j > i
                 /\ (table /\ ~empty /\ ~error) \/ (~table /\ empty /\ ~error)
                        \/ (~table /\ ~empty /\ error)
                 /\ table <=> (/\ HasHolidayList(hol_resp)
                               /\ hol_resp.body.response.holidays # <<>>
                               /\ Readable(hol_resp.body.response.holidays))
                 /\ empty <=> (/\ HasHolidayList(hol_resp)
                               /\ hol_resp.body.response.holidays = <<>>)
                 /\ error <=> HolidayUnusable(hol_resp)

\* A completed pass for a resolved country whose reply had an empty holiday list.
C10_Witness ==
    /\ PassCompleted
    /\ CountrySet
    /\ HasHolidayList(hol_resp)
    /\ hol_resp.body.response.holidays = <<>>
    /\ ShownMsg("info", "no_holidays")
    /\ ~Shown("error")

\* A pass has ended: at the end of the script, or in the rerun request.
PassEnded == PassCompleted \/ (pc = "start" /\ ended = "rerun")

\* The step that runs the results area.
ResultsStep == pc = "holiday" /\ pc' = "idle"

(***************************************************************************)
(* C11, as claimed: every render pass that starts with a country code in   *)
(* the session state issues a holiday request for that code.               *)
(***************************************************************************)
C11_EveryPassWithCountryFetches ==
    (PassEnded /\ Truthy(Get(entry[4]))) =>
        /\ holiday_req.url # "none"
        /\ holiday_req.country = entry[4]

(***************************************************************************)
(* C11, amended: every render pass that starts with a country code and in  *)
(* which the map reports no click issues the holiday request for that code *)
(* and the year current at that moment, and takes a fresh reply; more      *)
(* generally the results area issues the request exactly when the country  *)
(* code is set as it is reached, which never happens in a pass that        *)
(* processed a click.                                                      *)
(***************************************************************************)
C11_PassWithoutClickFetches ==
    /\ []((PassCompleted /\ Truthy(Get(entry[4])) /\ ~Truthy(map_data)) =>
              /\ holiday_req.url # "none"
              /\ holiday_req.country = entry[4]
              /\ hol_resp # NoResponse)
    /\ [][ResultsStep =>
              IF CountrySet
              THEN /\ ~Truthy(map_data)
                   /\ holiday_req'.url # "none"
                   /\ holiday_req'.country = country_code
                   /\ holiday_req'.year = year
                   /\ hol_resp' # NoResponse
              ELSE /\ holiday_req' = NoRequest
                   /\ hol_resp' = NoResponse]_vars

\* A pass started by moving the map, a year after the click, fetches again.
C11_Witness ==
    /\ PassCompleted
    /\ trigger = "moved"
    /\ Truthy(Get(entry[4]))
    /\ ~Truthy(map_data)
    /\ holiday_req.url # "none"
    /\ holiday_req.year = 2027
    /\ geo_resp # NoResponse

\* The header rendered in this pass, if any.
Headers == {view[i] : i \in {j \in 1..Len(view) : view[j][1] = "subheader"}}

(***************************************************************************)
(* C12: a new click supersedes the earlier resolution: at the end of every *)
(* completed pass a displayed header or result is for the country resolved *)
(* from the most recently clicked point, never for one resolved from an    *)
(* earlier click, in particular not after the latest geocoding failed.     *)
(***************************************************************************)
C12_NewClickSupersedes ==
    PassCompleted =>
        /\ (Shown("subheader") \/ Shown("dataframe")) =>
               /\ GeoSucceeded(geo_resp)
               /\ clicked_location = last_click
               /\ \A h \in Headers :
                      /\ h[3] = Str(Upper(geo_resp.body.address.country_code[2]))
                      /\ h[3] = country_code
                      /\ h[2] = country_name
        /\ ~GeoSucceeded(geo_resp) =>
               /\ ~Shown("subheader")
               /\ ~Shown("dataframe")
               /\ holiday_req = NoRequest

\* Holidays of the country of the latest click, shown by the pass after the rerun.
C12_Witness ==
    /\ PassCompleted
    /\ trigger = "rerun"
    /\ Shown("subheader")
    /\ Shown("dataframe")
    /\ last_click = Loc(400000, -1000000)
    /\ clicked_location = last_click
    /\ country_code = Str(<<"U", "S">>)

\* The marker the map is drawn with for a stored clicked_location.
MarkerOf(loc) == IF Truthy(Get(loc)) THEN loc ELSE None

(***************************************************************************)
(* C13: at the end of every completed pass the map centre, zoom and marker *)
(* rendered in that pass equal center, zoom and clicked_location of the    *)
(* session state, and the displayed results are those of the session       *)
(* state's country.                                                        *)
(***************************************************************************)
C13_MapMatchesState ==
    PassCompleted =>
        /\ view[1] = MapElem(center, zoom, MarkerOf(clicked_location))
        /\ \A h \in Headers : h[2] = country_name /\ h[3] = country_code
        /\ Shown("subheader") <=> CountrySet

\* The tables rendered in this pass.
Tables == {view[i][2] : i \in {j \in 1..Len(view) : view[j][1] = "dataframe"}}

\* The field of a record as the table shows it: an empty cell when missing.
Field(h, k) == IF k \in DOMAIN h THEN h[k] ELSE NaN

(***************************************************************************)
(* C14: the rendered table is determined by the holiday list of the reply  *)
(* alone, so two fetches that get the same list render identical tables:   *)
(* one row per record, in the order of the list, none dropped, duplicated  *)
(* or re-sorted, each row carrying the record's date.iso, name and         *)
(* description.                                                            *)
(***************************************************************************)
C14_TableIsTheListInOrder ==
    \A rows \in Tables :
        /\ HasHolidayList(hol_resp)
        /\ Cardinality(Tables) = 1
        /\ LET hs == hol_resp.body.response.holidays
           IN  /\ Len(rows) = Len(hs)
               /\ \A i \in 1..Len(hs) :
                      /\ rows[i][1] = hs[i].date.iso
                      /\ rows[i][2] = Field(hs[i], "name")
                      /\ rows[i][3] = Field(hs[i], "description")

\* A table of two different records, in the order of the reply.
C14_Witness ==
    /\ PassCompleted
    /\ Tables # {}
    /\ HasHolidayList(hol_resp)
    /\ Len(hol_resp.body.response.holidays) = 2
    /\ hol_resp.body.response.holidays[1].date.iso = Str(<<"2">>)
    /\ hol_resp.body.response.holidays[2].date.iso = Str(<<"1">>)

\* The step that runs lines 11-61 in a session whose state exists already.
RestartStep == pc = "start" /\ pc' = "handle" /\ center # Absent

(***************************************************************************)
(* C15: clicked_location is set exactly when a click has been processed in *)
(* the session; once the session state exists, zoom is the default 4       *)
(* exactly when no click has been processed and 6 otherwise; the defaults  *)
(* are applied in the first pass of a session only.                        *)
(***************************************************************************)
C15_DefaultsUntilFirstClick ==
    /\ [](/\ Truthy(Get(clicked_location)) <=> clicks
          /\ zoom = Absent => ~clicks /\ center = Absent /\ clicked_location = Absent
          /\ zoom # Absent =>
                 /\ (zoom = Num(4) <=> ~clicks)
                 /\ (zoom = Num(6) <=> clicks)
                 /\ (~clicks => center = DefaultCenter /\ clicked_location = None))
    /\ [][RestartStep => session' = session]_vars

\* A later pass of a session in which a click was processed: the state of the click stands.
C15_Witness ==
    /\ PassCompleted
    /\ trigger = "moved"
    /\ clicks
    /\ zoom = Num(6)
    /\ clicked_location = Loc(0, -300000)
    /\ entry = session

(***************************************************************************)
(* C16: country_name is set exactly when country_code is set, the two are  *)
(* written together, and when set country_code is the upper-cased          *)
(* country_code of the last successful geocoding reply and country_name is *)
(* that reply's country if it has one, otherwise country_code.             *)
(***************************************************************************)
C16_CodeAndNameTogether ==
    /\ Truthy(Get(country_name)) <=> Truthy(Get(country_code))
    /\ country_name = Absent <=> country_code = Absent
    /\ country_name = None <=> country_code = None
    /\ CountrySet =>
           /\ GeoSucceeded(geo_resp)
           /\ LET address == geo_resp.body.address
              IN  /\ country_code = Str(Upper(address.country_code[2]))
                  /\ country_name = IF "country" \in DOMAIN address
                                    THEN address.country
                                    ELSE country_code

\* A reply without the country field: the upper-cased code serves as the name.
C16_Witness ==
    /\ CountrySet
    /\ GeoSucceeded(geo_resp)
    /\ "country" \notin DOMAIN geo_resp.body.address
    /\ geo_resp.body.address.country_code = Str(<<"k", "r">>)
    /\ country_code = Str(<<"K", "R">>)
    /\ country_name = Str(<<"K", "R">>)

(***************************************************************************)
(* C17: a pass in which the map reports no click leaves the session state  *)
(* as it found it (after creating the missing keys in the first pass of a  *)
(* session), the results area never writes the session state, and after    *)
(* the defaults only the click handler changes it.                         *)
(***************************************************************************)
C17_OnlyClickHandlerWrites ==
    /\ []((PassCompleted /\ ~Truthy(map_data)) =>
              IF entry[1] = Absent
              THEN session = <<DefaultCenter, Num(4), None, Absent, Absent>>
              ELSE session = entry)
    /\ [][ResultsStep => session' = session]_vars
    /\ [][session' # session =>
              \/ pc = "handle" /\ Truthy(map_data)
              \/ pc = "start" /\ center = Absent
              \/ pc = "idle" /\ pc' = "start" /\ trigger' = "load"]_vars

\* A pass without a click completed for a session that holds a resolved country.
C17_Witness ==
    /\ PassCompleted
    /\ ~Truthy(map_data)
    /\ entry[1] # Absent
    /\ CountrySet
    /\ holiday_req.url # "none"
    /\ session = entry

====
